---- MODULE Spec2Model ----
(***************************************************************************)
(* Model of sonic's store layer: the key encoder (src/store/keyer.rs) and  *)
(* the key-value store handle and action facade (src/store/kv.rs).         *)
(*                                                                         *)
(* Unsigned machine words (u32, u64) are little-endian sequences of bytes  *)
(* (limb 1 is the least significant byte), so that 64-bit hashing and      *)
(* formatting keep their exact width.  Text is a sequence of bytes.  A     *)
(* physical key is a sequence of one-character strings.                    *)
(***************************************************************************)
EXTENDS Integers, Sequences, FiniteSets

\* ------------------------------------------------------------------------
\* Fixed-width unsigned arithmetic on byte limbs
\* ------------------------------------------------------------------------

RECURSIVE Pow2(_)
Pow2(n) == IF n = 0 THEN 1 ELSE 2 * Pow2(n - 1)

\* the w-byte word holding the natural number n
RECURSIVE ToWord(_, _)
ToWord(n, w) == IF w = 0 THEN <<>> ELSE <<n % 256>> \o ToWord(n \div 256, w - 1)

ZeroWord(w) == [i \in 1..w |-> 0]

IsZero(a) == \A i \in 1..Len(a) : a[i] = 0

\* limb i of a, zero outside the word
Limb(a, i) == IF i >= 1 /\ i <= Len(a) THEN a[i] ELSE 0

RECURSIVE AddCarry(_, _, _, _)
AddCarry(a, b, i, c) ==
    IF i > Len(a) THEN <<>>
    ELSE LET s == a[i] + b[i] + c
         IN  <<s % 256>> \o AddCarry(a, b, i + 1, s \div 256)

\* wrapping_add
AddW(a, b) == AddCarry(a, b, 1, 0)

RECURSIVE ColSum(_, _, _, _)
ColSum(a, b, k, i) ==
    IF i > k THEN 0 ELSE (a[i] * b[k + 1 - i]) + ColSum(a, b, k, i + 1)

RECURSIVE MulCarry(_, _, _, _)
MulCarry(a, b, k, c) ==
    IF k > Len(a) THEN <<>>
    ELSE LET s == ColSum(a, b, k, 1) + c
         IN  <<s % 256>> \o MulCarry(a, b, k + 1, s \div 256)

\* wrapping_mul
MulW(a, b) == MulCarry(a, b, 1, 0)

RECURSIVE XorBits(_, _, _)
XorBits(x, y, n) ==
    IF n = 0 THEN 0
    ELSE ((x + y) % 2) + 2 * XorBits(x \div 2, y \div 2, n - 1)

XorW(a, b) == [i \in 1..Len(a) |-> XorBits(a[i], b[i], 8)]

\* a << r and a >> r, 0 <= r < 8 * Len(a)
ShlW(a, r) ==
    LET q == r \div 8
        s == r % 8
    IN  [i \in 1..Len(a) |->
            ((Limb(a, i - q) * Pow2(s)) % 256) + (Limb(a, i - q - 1) \div Pow2(8 - s))]

ShrW(a, r) ==
    LET q == r \div 8
        s == r % 8
    IN  [i \in 1..Len(a) |->
            (Limb(a, i + q) \div Pow2(s)) + ((Limb(a, i + q + 1) * Pow2(8 - s)) % 256)]

\* rotate_left
RotlW(a, r) ==
    LET hi == ShlW(a, r)
        lo == ShrW(a, 8 * Len(a) - r)
    IN  [i \in 1..Len(a) |-> hi[i] + lo[i]]

\* the n bytes of text starting at index i, read little-endian into a w-byte word
ReadLE(text, i, n, w) == [j \in 1..w |-> IF j <= n THEN text[i + j - 1] ELSE 0]

\* quotient (limbs 1..i) and remainder of the limbs 1..i of a, with carried-in
\* remainder rem, divided by the small number base
RECURSIVE DivStep(_, _, _, _)
DivStep(a, base, i, rem) ==
    IF i = 0 THEN [q |-> <<>>, r |-> rem]
    ELSE LET cur  == rem * 256 + a[i]
             rest == DivStep(a, base, i - 1, cur % base)
         IN  [q |-> Append(rest.q, cur \div base), r |-> rest.r]

DivMod(a, base) == DivStep(a, base, Len(a), 0)

\* ------------------------------------------------------------------------
\* XxHash32 and XxHash (64-bit) of the twox_hash crate, as used by the keyer:
\* with_seed(seed), one write(bytes), finish()
\* ------------------------------------------------------------------------

PRIME32_1 == <<177, 121, 55, 158>>
PRIME32_2 == <<119, 202, 235, 133>>
PRIME32_3 == <<61, 174, 178, 194>>
PRIME32_4 == <<47, 235, 212, 39>>
PRIME32_5 == <<177, 103, 86, 22>>

PRIME64_1 == <<135, 202, 235, 133, 177, 121, 55, 158>>
PRIME64_2 == <<79, 235, 212, 39, 61, 174, 178, 194>>
PRIME64_3 == <<249, 121, 55, 158, 177, 103, 86, 22>>
PRIME64_4 == <<99, 174, 178, 194, 119, 202, 235, 133>>
PRIME64_5 == <<197, 103, 86, 22, 47, 235, 212, 39>>

\* two's complement negation, for seed.wrapping_sub(PRIME_1)
NegW(a) == AddW([i \in 1..Len(a) |-> 255 - a[i]], ToWord(1, Len(a)))

Round32(v, k) == MulW(RotlW(AddW(v, MulW(k, PRIME32_2)), 13), PRIME32_1)

\* the four lanes after every whole 16-byte stripe from index i on
RECURSIVE Stripes32(_, _, _)
Stripes32(text, i, v) ==
    IF i + 15 > Len(text) THEN v
    ELSE Stripes32(text, i + 16,
            [j \in 1..4 |-> Round32(v[j], ReadLE(text, i + 4 * (j - 1), 4, 4))])

RECURSIVE Tail32(_, _, _)
Tail32(text, i, h) ==
    IF i + 3 <= Len(text)
    THEN Tail32(text, i + 4,
            MulW(RotlW(AddW(h, MulW(ReadLE(text, i, 4, 4), PRIME32_3)), 17), PRIME32_4))
    ELSE IF i <= Len(text)
    THEN Tail32(text, i + 1,
            MulW(RotlW(AddW(h, MulW(ReadLE(text, i, 1, 4), PRIME32_5)), 11), PRIME32_1))
    ELSE h

Avalanche32(h) ==
    LET h1 == MulW(XorW(h, ShrW(h, 15)), PRIME32_2)
        h2 == MulW(XorW(h1, ShrW(h1, 13)), PRIME32_3)
    IN  XorW(h2, ShrW(h2, 16))

XxHash32(seed, text) ==
    LET n    == Len(text)
        done == 16 * (n \div 16)
        v    == Stripes32(text, 1,
                    << AddW(AddW(seed, PRIME32_1), PRIME32_2),
                       AddW(seed, PRIME32_2),
                       seed,
                       AddW(seed, NegW(PRIME32_1)) >>)
        acc  == IF n >= 16
                THEN AddW(AddW(RotlW(v[1], 1), RotlW(v[2], 7)),
                          AddW(RotlW(v[3], 12), RotlW(v[4], 18)))
                ELSE AddW(seed, PRIME32_5)
    IN  Avalanche32(Tail32(text, done + 1, AddW(acc, ToWord(n, 4))))

Round64(acc, k) == MulW(RotlW(AddW(acc, MulW(k, PRIME64_2)), 31), PRIME64_1)

MergeRound64(h, v) ==
    AddW(MulW(XorW(h, Round64(ZeroWord(8), v)), PRIME64_1), PRIME64_4)

\* the four lanes after every whole 32-byte stripe from index i on
RECURSIVE Stripes64(_, _, _)
Stripes64(text, i, v) ==
    IF i + 31 > Len(text) THEN v
    ELSE Stripes64(text, i + 32,
            [j \in 1..4 |-> Round64(v[j], ReadLE(text, i + 8 * (j - 1), 8, 8))])

RECURSIVE Tail64(_, _, _)
Tail64(text, i, h) ==
    IF i + 7 <= Len(text)
    THEN Tail64(text, i + 8,
            AddW(MulW(RotlW(XorW(h, Round64(ZeroWord(8), ReadLE(text, i, 8, 8))), 27),
                      PRIME64_1), PRIME64_4))
    ELSE IF i + 3 <= Len(text)
    THEN Tail64(text, i + 4,
            AddW(MulW(RotlW(XorW(h, MulW(ReadLE(text, i, 4, 8), PRIME64_1)), 23),
                      PRIME64_2), PRIME64_3))
    ELSE IF i <= Len(text)
    THEN Tail64(text, i + 1,
            MulW(RotlW(XorW(h, MulW(ReadLE(text, i, 1, 8), PRIME64_5)), 11), PRIME64_1))
    ELSE h

Avalanche64(h) ==
    LET h1 == MulW(XorW(h, ShrW(h, 33)), PRIME64_2)
        h2 == MulW(XorW(h1, ShrW(h1, 29)), PRIME64_3)
    IN  XorW(h2, ShrW(h2, 32))

XxHash64(seed, text) ==
    LET n    == Len(text)
        done == 32 * (n \div 32)
        v    == Stripes64(text, 1,
                    << AddW(AddW(seed, PRIME64_1), PRIME64_2),
                       AddW(seed, PRIME64_2),
                       seed,
                       AddW(seed, NegW(PRIME64_1)) >>)
        acc  == IF n >= 32
                THEN MergeRound64(MergeRound64(MergeRound64(MergeRound64(
                        AddW(AddW(RotlW(v[1], 1), RotlW(v[2], 7)),
                             AddW(RotlW(v[3], 12), RotlW(v[4], 18))),
                        v[1]), v[2]), v[3]), v[4])
                ELSE AddW(seed, PRIME64_5)
    IN  Avalanche64(Tail64(text, done + 1, AddW(acc, ToWord(n, 8))))

\* ------------------------------------------------------------------------
\* radix_fmt: Display of Radix<u64>
\* ------------------------------------------------------------------------

RadixDigits ==
    << "0", "1", "2", "3", "4", "5", "6", "7", "8", "9", "a", "b",
       "c", "d", "e", "f", "g", "h", "i", "j", "k", "l", "m", "n",
       "o", "p", "q", "r", "s", "t", "u", "v", "w", "x", "y", "z" >>

\* a radix that stops at zero before writing any digit
RECURSIVE radix_until_zero(_, _)
radix_until_zero(n, base) ==
    LET qr == DivMod(n, base)
    IN  IF IsZero(n) THEN << >>
        ELSE Append(radix_until_zero(qr.q, base), RadixDigits[qr.r + 1])

\* digits are produced from the least significant one, at least one digit,
\* until the quotient is zero
RECURSIVE radix(_, _)
radix(n, base) ==
    LET qr == DivMod(n, base)
    IN  IF IsZero(qr.q) THEN << RadixDigits[qr.r + 1] >>
        ELSE Append(radix(qr.q, base), RadixDigits[qr.r + 1])

\* u32 -> u64 (Hasher::finish of XxHash32 returns the 32-bit hash as u64)
Widen(a) == a \o ZeroWord(8 - Len(a))

\* ------------------------------------------------------------------------
\* src/store/keyer.rs
\* ------------------------------------------------------------------------

STORE_KEYER_BUCKET_COMPACT_BASE == 36
STORE_KEYER_ROUTE_COMPACT_BASE == 36

\* enum StoreKeyerIdx
IdxKinds == {"TermToIIDs", "OIDToIID", "IIDToOID", "IIDToTerms"}

\* a to_index that gives OIDToIID the discriminant of TermToIIDs
to_index_dup(idx) ==
    CASE idx.kind = "TermToIIDs" -> 0
      [] idx.kind = "OIDToIID"   -> 0
      [] idx.kind = "IIDToOID"   -> 2
      [] idx.kind = "IIDToTerms" -> 3

to_index(idx) ==
    CASE idx.kind = "TermToIIDs" -> 0
      [] idx.kind = "OIDToIID"   -> 1
      [] idx.kind = "IIDToOID"   -> 2
      [] idx.kind = "IIDToTerms" -> 3

\* StoreKeyerBuilder
term_to_iids(bucket, term) ==
    [idx |-> [kind |-> "TermToIIDs", route |-> term], bucket |-> bucket]

oid_to_iid(bucket, oid) ==
    [idx |-> [kind |-> "OIDToIID", route |-> oid], bucket |-> bucket]

iid_to_oid(bucket, iid) ==
    [idx |-> [kind |-> "IIDToOID", route |-> iid], bucket |-> bucket]

iid_to_terms(bucket, iid) ==
    [idx |-> [kind |-> "IIDToTerms", route |-> iid], bucket |-> bucket]

hash_route_text(text) == XxHash64(ZeroWord(8), text)

bucket_to_compact(keyer) ==
    radix(Widen(XxHash32(ZeroWord(4), keyer.bucket)), STORE_KEYER_BUCKET_COMPACT_BASE)

\* a route_to_compact that hashes the IID of IIDToTerms like a text route
route_to_compact_hashed(keyer) ==
    LET value == CASE keyer.idx.kind = "TermToIIDs" -> hash_route_text(keyer.idx.route)
                   [] keyer.idx.kind = "OIDToIID"   -> hash_route_text(keyer.idx.route)
                   [] keyer.idx.kind = "IIDToOID"   -> keyer.idx.route
                   [] keyer.idx.kind = "IIDToTerms" -> hash_route_text(keyer.idx.route)
    IN  radix(value, STORE_KEYER_ROUTE_COMPACT_BASE)

\* a route_to_compact that narrows the IID to 32 bits (*route as u32)
route_to_compact_u32(keyer) ==
    LET narrow(w) == [i \in 1..8 |-> IF i <= 4 THEN w[i] ELSE 0]
        value == CASE keyer.idx.kind = "TermToIIDs" -> hash_route_text(keyer.idx.route)
                   [] keyer.idx.kind = "OIDToIID"   -> hash_route_text(keyer.idx.route)
                   [] keyer.idx.kind = "IIDToOID"   -> narrow(keyer.idx.route)
                   [] keyer.idx.kind = "IIDToTerms" -> narrow(keyer.idx.route)
    IN  radix(value, STORE_KEYER_ROUTE_COMPACT_BASE)

route_to_compact(keyer) ==
    LET value == CASE keyer.idx.kind = "TermToIIDs" -> hash_route_text(keyer.idx.route)
                   [] keyer.idx.kind = "OIDToIID"   -> hash_route_text(keyer.idx.route)
                   [] keyer.idx.kind = "IIDToOID"   -> keyer.idx.route
                   [] keyer.idx.kind = "IIDToTerms" -> keyer.idx.route
    IN  radix(value, STORE_KEYER_ROUTE_COMPACT_BASE)

\* Display of the u8 discriminant
FormatU8(n) ==
    IF n < 10 THEN << RadixDigits[n + 1] >>
    ELSE IF n < 100 THEN << RadixDigits[(n \div 10) + 1], RadixDigits[(n % 10) + 1] >>
    ELSE << RadixDigits[(n \div 100) + 1], RadixDigits[((n \div 10) % 10) + 1],
            RadixDigits[(n % 10) + 1] >>

to_string(keyer) ==
    FormatU8(to_index(keyer.idx)) \o <<":">> \o bucket_to_compact(keyer)
        \o <<":">> \o route_to_compact(keyer)


\* ------------------------------------------------------------------------
\* State
\* ------------------------------------------------------------------------

VARIABLES
    pc,       \* position of the caller encoding a key: "idle", "built", "keyed"
    keyer,    \* the StoreKeyer under construction (borrowed inputs)
    key,      \* the String returned by to_string
    last,     \* the previous encoding the caller still holds: its keyer and key
    live,     \* connections to the engine that are open (owned by a StoreKV)
    opens,    \* number of DB::open calls made so far
    store,    \* the StoreKV the caller holds from acquire, or NoStore
    action,   \* the StoreKVAction the caller holds, or NoAction
    fault,    \* whether the engine currently fails reads and writes
    ret       \* the last call on the store layer and what it returned

keyerVars == <<pc, keyer, key, last>>
kvVars == <<live, opens, store, action, fault, ret>>
vars == <<pc, keyer, key, last, live, opens, store, action, fault, ret>>

\* ------------------------------------------------------------------------
\* Inputs
\* ------------------------------------------------------------------------

MaxIID == 3

Empty == <<>>
Hello == <<104, 101, 108, 108, 111>>
Yes == <<121, 101, 115>>
Default == <<100, 101, 102, 97, 117, 108, 116>>
User == <<117, 115, 101, 114, 58, 48, 100, 99, 100, 101, 51, 97, 54>>
Conversation ==
    <<99, 111, 110, 118, 101, 114, 115, 97, 116, 105, 111, 110, 58, 54, 53, 48,
      49, 101, 56, 51, 97>>

Buckets == {Empty, Default, User}
Terms == {Empty, Hello, Yes}
OIDs == {Empty, Hello, Conversation}

IID_10292198 == ToWord(10292198, 8)
IID_2p32 == <<0, 0, 0, 0, 1, 0, 0, 0>>
IID_MAX == [i \in 1..8 |-> 255]
\* StoreObjectIID is the u64 that route_to_compact hands to radix unchanged:
\* dense IIDs from 0, the IIDs around the digit boundaries of base 36, the
\* IIDs of the keyer's tests, and IIDs above 32 bits
IIDs ==
    {ToWord(n, 8) : n \in 0..MaxIID}
        \cup {ToWord(n, 8) : n \in {20, 35, 36, 1295, 1296}}
        \cup {IID_10292198, IID_2p32, IID_MAX}

NoKeyer == [idx |-> [kind |-> "none", route |-> <<>>], bucket |-> <<>>]
NoKey == <<>>

\* ------------------------------------------------------------------------
\* Key encoder: build a keyer, format it, discard it
\* ------------------------------------------------------------------------

InitKeyer ==
    /\ pc = "idle"
    /\ keyer = NoKeyer
    /\ key = NoKey
    /\ last = [keyer |-> NoKeyer, key |-> NoKey]

BuildTermToIIDs ==
    /\ pc = "idle"
    /\ \E bucket \in Buckets, term \in Terms : keyer' = term_to_iids(bucket, term)
    /\ pc' = "built"
    /\ UNCHANGED <<key, last>>
    /\ UNCHANGED kvVars

BuildOIDToIID ==
    /\ pc = "idle"
    /\ \E bucket \in Buckets, oid \in OIDs : keyer' = oid_to_iid(bucket, oid)
    /\ pc' = "built"
    /\ UNCHANGED <<key, last>>
    /\ UNCHANGED kvVars

BuildIIDToOID ==
    /\ pc = "idle"
    /\ \E bucket \in Buckets, iid \in IIDs : keyer' = iid_to_oid(bucket, iid)
    /\ pc' = "built"
    /\ UNCHANGED <<key, last>>
    /\ UNCHANGED kvVars

BuildIIDToTerms ==
    /\ pc = "idle"
    /\ \E bucket \in Buckets, iid \in IIDs : keyer' = iid_to_terms(bucket, iid)
    /\ pc' = "built"
    /\ UNCHANGED <<key, last>>
    /\ UNCHANGED kvVars

CallToString ==
    /\ pc = "built"
    /\ key' = to_string(keyer)
    /\ pc' = "keyed"
    /\ UNCHANGED <<keyer, last>>
    /\ UNCHANGED kvVars

\* the keyer goes out of scope; the caller keeps the key it produced
Discard ==
    /\ pc = "keyed"
    /\ last' = [keyer |-> keyer, key |-> key]
    /\ keyer' = NoKeyer
    /\ key' = NoKey
    /\ pc' = "idle"
    /\ UNCHANGED kvVars


\* ------------------------------------------------------------------------
\* src/store/kv.rs: store handle
\* ------------------------------------------------------------------------

MaxOpens == 3

\* what DB::open can answer: a connection, or a DBError
DBErrors == {"io", "lock", "corruption"}
EngineOk == "ok"

Targets == {"c1", "c2"}

NoStore == 0
NoAction == [bucket |-> Empty, store |-> NoStore]

\* Result and Option values returned by the store layer
Ok(db) == [tag |-> "Ok", db |-> db, err |-> ""]
Err(e) == [tag |-> "Err", db |-> NoStore, err |-> e]
None == [tag |-> "None", db |-> NoStore, err |-> ""]
NoRet ==
    [op |-> "none", res |-> None, calls |-> 0, engine |-> EngineOk,
     shared |-> {}, fault |-> FALSE]

\* The engine's answers to the DB::open calls to come, first call first.  The
\* database directory is locked while a connection to it is open, so DB::open
\* cannot succeed then.
EngineAnswers(open_now) ==
    [1..2 -> IF open_now = {} THEN {EngineOk} \cup DBErrors ELSE DBErrors]

\* StoreKVBuilder::open: one DB::open call on the fixed path "./collection";
\* db is the connection that call yields if the engine accepts it
StoreKVBuilder_open(engine, db) ==
    [res   |-> IF engine[1] = EngineOk THEN Ok(db) ELSE Err(engine[1]),
     calls |-> 1]

\* a new() that opens again when the first open fails
StoreKVBuilder_new_retry(engine, db) ==
    LET first == StoreKVBuilder_open(engine, db)
    IN  IF first.res.tag = "Ok" THEN first
        ELSE LET second == StoreKVBuilder_open(Tail(engine), db)
             IN  [res |-> second.res, calls |-> first.calls + second.calls]

\* StoreKVBuilder::new: Self::open().map(|db| StoreKV { database: db })
StoreKVBuilder_new(engine, db) ==
    LET opened == StoreKVBuilder_open(engine, db)
    IN  [res   |-> IF opened.res.tag = "Ok" THEN Ok(opened.res.db) ELSE opened.res,
         calls |-> opened.calls]

\* StoreKVPool::acquire: the target is not used
StoreKVPool_acquire(target, engine, db) == StoreKVBuilder_new(engine, db)

InitKV ==
    /\ live = {}
    /\ opens = 0
    /\ store = NoStore
    /\ action = NoAction
    /\ fault = FALSE
    /\ ret = NoRet

\* the caller holds at most one StoreKV that is not yet bound to an action
Acquire ==
    /\ store = NoStore
    /\ opens < MaxOpens
    /\ \E target \in Targets, engine \in EngineAnswers(live) :
        LET r == StoreKVPool_acquire(target, engine, opens + 1)
        IN  /\ opens' = opens + r.calls
            /\ store' = r.res.db
            /\ live' = IF r.res.tag = "Ok" THEN live \cup {r.res.db} ELSE live
            /\ ret' = [op |-> "acquire", res |-> r.res, calls |-> r.calls,
                       engine |-> engine[1], shared |-> live, fault |-> fault]
    /\ UNCHANGED <<action, fault>>
    /\ UNCHANGED keyerVars

\* StoreKVActionBuilder::new: the store moves into the action
BindAction ==
    /\ store # NoStore
    /\ action = NoAction
    /\ \E bucket \in Buckets : action' = [bucket |-> bucket, store |-> store]
    /\ store' = NoStore
    /\ UNCHANGED <<live, opens, fault, ret>>
    /\ UNCHANGED keyerVars

\* the StoreKV goes out of scope: its DB is closed
DropStore ==
    /\ store # NoStore
    /\ live' = live \ {store}
    /\ store' = NoStore
    /\ UNCHANGED <<opens, action, fault, ret>>
    /\ UNCHANGED keyerVars

\* the StoreKVAction goes out of scope, and the StoreKV it owns with it
DropAction ==
    /\ action # NoAction
    /\ live' = live \ {action.store}
    /\ action' = NoAction
    /\ UNCHANGED <<opens, store, fault, ret>>
    /\ UNCHANGED keyerVars

\* the engine starts or stops failing its reads and writes
ToggleFault ==
    /\ fault' = ~fault
    /\ UNCHANGED <<live, opens, store, action, ret>>
    /\ UNCHANGED keyerVars


\* ------------------------------------------------------------------------
\* src/store/kv.rs: action facade.  Every operation builds its keyer and
\* returns; none reaches the engine.
\* ------------------------------------------------------------------------

IIDLists == {<<>>, <<ToWord(1, 8)>>, <<ToWord(1, 8), ToWord(20, 8)>>}
TermLists == {<<>>, <<Hello>>, <<Hello, Yes>>}

get_term_to_iids(self, term) ==
    LET k == term_to_iids(self.bucket, term) IN None

set_term_to_iids(self, term, iids) ==
    LET k == term_to_iids(self.bucket, term) IN Err("")

delete_term_to_iids(self, term) ==
    LET k == term_to_iids(self.bucket, term) IN Err("")

get_oid_to_iid(self, oid) ==
    LET k == oid_to_iid(self.bucket, oid) IN None

set_oid_to_iid(self, oid, iid) ==
    LET k == oid_to_iid(self.bucket, oid) IN Err("")

delete_oid_to_iid(self, oid) ==
    LET k == oid_to_iid(self.bucket, oid) IN Err("")

get_iid_to_oid(self, iid) ==
    LET k == iid_to_oid(self.bucket, iid) IN None

set_iid_to_oid(self, iid, oid) ==
    LET k == iid_to_oid(self.bucket, iid) IN Err("")

delete_iid_to_oid(self, iid) ==
    LET k == iid_to_oid(self.bucket, iid) IN Err("")

get_iid_to_terms(self, iid) ==
    LET k == iid_to_terms(self.bucket, iid) IN None

set_iid_to_terms(self, iid, terms) ==
    LET k == iid_to_terms(self.bucket, iid) IN Err("")

delete_iid_to_terms(self, iid) ==
    LET k == iid_to_terms(self.bucket, iid) IN Err("")

\* a facade call returning res, made while the engine is in state fault
Returned(op, res) ==
    /\ ret' = [op |-> op, res |-> res, calls |-> 0, engine |-> EngineOk,
               shared |-> live, fault |-> fault]
    /\ UNCHANGED <<live, opens, store, action, fault>>
    /\ UNCHANGED keyerVars

GetTermToIIDs ==
    /\ action # NoAction
    /\ \E term \in Terms : Returned("get_term_to_iids", get_term_to_iids(action, term))

SetTermToIIDs ==
    /\ action # NoAction
    /\ \E term \in Terms, iids \in IIDLists :
        Returned("set_term_to_iids", set_term_to_iids(action, term, iids))

DeleteTermToIIDs ==
    /\ action # NoAction
    /\ \E term \in Terms :
        Returned("delete_term_to_iids", delete_term_to_iids(action, term))

GetOIDToIID ==
    /\ action # NoAction
    /\ \E oid \in OIDs : Returned("get_oid_to_iid", get_oid_to_iid(action, oid))

SetOIDToIID ==
    /\ action # NoAction
    /\ \E oid \in OIDs, iid \in IIDs :
        Returned("set_oid_to_iid", set_oid_to_iid(action, oid, iid))

DeleteOIDToIID ==
    /\ action # NoAction
    /\ \E oid \in OIDs : Returned("delete_oid_to_iid", delete_oid_to_iid(action, oid))

GetIIDToOID ==
    /\ action # NoAction
    /\ \E iid \in IIDs : Returned("get_iid_to_oid", get_iid_to_oid(action, iid))

SetIIDToOID ==
    /\ action # NoAction
    /\ \E iid \in IIDs, oid \in OIDs :
        Returned("set_iid_to_oid", set_iid_to_oid(action, iid, oid))

DeleteIIDToOID ==
    /\ action # NoAction
    /\ \E iid \in IIDs : Returned("delete_iid_to_oid", delete_iid_to_oid(action, iid))

GetIIDToTerms ==
    /\ action # NoAction
    /\ \E iid \in IIDs : Returned("get_iid_to_terms", get_iid_to_terms(action, iid))

SetIIDToTerms ==
    /\ action # NoAction
    /\ \E iid \in IIDs, terms \in TermLists :
        Returned("set_iid_to_terms", set_iid_to_terms(action, iid, terms))

DeleteIIDToTerms ==
    /\ action # NoAction
    /\ \E iid \in IIDs : Returned("delete_iid_to_terms", delete_iid_to_terms(action, iid))

\* ------------------------------------------------------------------------
\* Specifications
\* ------------------------------------------------------------------------

Init == InitKeyer /\ InitKV

\* the key encoder alone
Next ==
    \/ BuildTermToIIDs
    \/ BuildOIDToIID
    \/ BuildIIDToOID
    \/ BuildIIDToTerms
    \/ CallToString
    \/ Discard

Spec == Init /\ [][Next]_vars

\* the store handle and the action facade
NextStore ==
    \/ Acquire
    \/ BindAction
    \/ DropStore
    \/ DropAction
    \/ ToggleFault
    \/ GetTermToIIDs
    \/ SetTermToIIDs
    \/ DeleteTermToIIDs
    \/ GetOIDToIID
    \/ SetOIDToIID
    \/ DeleteOIDToIID
    \/ GetIIDToOID
    \/ SetIIDToOID
    \/ DeleteIIDToOID
    \/ GetIIDToTerms
    \/ SetIIDToTerms
    \/ DeleteIIDToTerms

SpecKV == Init /\ [][NextStore]_vars


\* ------------------------------------------------------------------------
\* Reading a physical key back: fields and base-36 values
\* ------------------------------------------------------------------------

Alphabet36 ==
    << "0", "1", "2", "3", "4", "5", "6", "7", "8", "9", "a", "b",
       "c", "d", "e", "f", "g", "h", "i", "j", "k", "l", "m", "n",
       "o", "p", "q", "r", "s", "t", "u", "v", "w", "x", "y", "z" >>

Lower36 == {Alphabet36[i] : i \in 1..Len(Alphabet36)}

DigitValue(c) == (CHOOSE i \in 1..Len(Alphabet36) : Alphabet36[i] = c) - 1

ColonsOf(k) == {i \in 1..Len(k) : k[i] = ":"}

FirstColon(k) == CHOOSE i \in ColonsOf(k) : \A j \in ColonsOf(k) : i <= j
LastColon(k) == CHOOSE i \in ColonsOf(k) : \A j \in ColonsOf(k) : j <= i

DiscriminantField(k) == SubSeq(k, 1, FirstColon(k) - 1)
BucketToken(k) == SubSeq(k, FirstColon(k) + 1, LastColon(k) - 1)
RouteToken(k) == SubSeq(k, LastColon(k) + 1, Len(k))

\* non-empty lowercase base-36 text, no leading zero except the token "0"
IsToken(t) ==
    /\ Len(t) >= 1
    /\ \A i \in 1..Len(t) : t[i] \in Lower36
    /\ t[1] = "0" => Len(t) = 1

\* the u64 a base-36 token denotes
RECURSIVE ParseFrom(_, _, _)
ParseFrom(t, i, acc) ==
    IF i > Len(t) THEN acc
    ELSE ParseFrom(t, i + 1,
            AddW(MulW(acc, ToWord(Len(Alphabet36), 8)), ToWord(DigitValue(t[i]), 8)))

ParseBase36(t) == ParseFrom(t, 1, ZeroWord(8))

TextKinds == {"TermToIIDs", "OIDToIID"}
IIDKinds == {"IIDToOID", "IIDToTerms"}

\* the discriminant the index schema assigns to each kind
SchemaDigit(kind) ==
    CASE kind = "TermToIIDs" -> "0"
      [] kind = "OIDToIID"   -> "1"
      [] kind = "IIDToOID"   -> "2"
      [] kind = "IIDToTerms" -> "3"

Keyed == pc = "keyed"
HasLast == last.key # NoKey

\* ------------------------------------------------------------------------
\* Claims on the key encoder (specification Spec)
\* ------------------------------------------------------------------------

\* C2: the key of each kind starts with that kind's discriminant field (0 for
\* TermToIIDs, 1 for OIDToIID, 2 for IIDToOID, 3 for IIDToTerms), and two keys
\* of different kinds are never equal, whatever their buckets and routes.
C2_DiscriminantSeparation ==
    Keyed =>
        /\ ColonsOf(key) # {}
        /\ DiscriminantField(key) = << SchemaDigit(keyer.idx.kind) >>
        /\ (HasLast /\ last.keyer.idx.kind # keyer.idx.kind) =>
              /\ DiscriminantField(last.key) # DiscriminantField(key)
              /\ last.key # key

\* two kinds encoded for the same bucket and the same route text
C2_Witness ==
    /\ Keyed
    /\ HasLast
    /\ keyer.idx.kind = "OIDToIID"
    /\ last.keyer.idx.kind = "TermToIIDs"
    /\ keyer.bucket = last.keyer.bucket
    /\ keyer.idx.route = Hello
    /\ last.keyer.idx.route = Hello
    /\ key # last.key

\* C3: for IIDToOID and IIDToTerms the route token is the base-36 rendering of
\* the IID itself (it reads back as the IID and is in shortest form): IID 1
\* gives "1", IID 20 gives "k", IID 10292198 gives "64lie"; the same IID gives
\* the same route token in every bucket.
C3_DirectIntegerEncoding ==
    (Keyed /\ keyer.idx.kind \in IIDKinds) =>
        /\ Cardinality(ColonsOf(key)) = 2
        /\ IsToken(RouteToken(key))
        /\ ParseBase36(RouteToken(key)) = keyer.idx.route
        /\ keyer.idx.route = ToWord(1, 8) => RouteToken(key) = <<"1">>
        /\ keyer.idx.route = ToWord(20, 8) => RouteToken(key) = <<"k">>
        /\ keyer.idx.route = IID_10292198 => RouteToken(key) = <<"6", "4", "l", "i", "e">>
        /\ (HasLast /\ last.keyer.idx.kind \in IIDKinds
                /\ last.keyer.idx.route = keyer.idx.route) =>
              RouteToken(last.key) = RouteToken(key)

\* IID 10292198 encoded in one bucket after the same IID in another bucket
C3_Witness ==
    /\ Keyed
    /\ HasLast
    /\ keyer.idx.kind = "IIDToOID"
    /\ keyer.idx.route = IID_10292198
    /\ last.keyer.idx.kind = "IIDToTerms"
    /\ last.keyer.idx.route = IID_10292198
    /\ last.keyer.bucket # keyer.bucket
    /\ RouteToken(key) = <<"6", "4", "l", "i", "e">>

\* C4: every key is exactly three colon-delimited fields: one decimal digit
\* 0-3, a bucket token and a route token, each token non-empty lowercase
\* base-36 text without leading zeros other than the token "0"; this holds
\* for the empty bucket, the empty term or OID, and IID 0 (rendered "0").
C4_PhysicalKeyFormat ==
    Keyed =>
        /\ Cardinality(ColonsOf(key)) = 2
        /\ DiscriminantField(key) \in {<<"0">>, <<"1">>, <<"2">>, <<"3">>}
        /\ IsToken(BucketToken(key))
        /\ IsToken(RouteToken(key))
        /\ (keyer.idx.kind \in IIDKinds /\ IsZero(keyer.idx.route)) =>
              RouteToken(key) = <<"0">>

\* IID 0 encoded in the empty bucket
C4_Witness ==
    /\ Keyed
    /\ keyer.bucket = Empty
    /\ keyer.idx.kind = "IIDToOID"
    /\ IsZero(keyer.idx.route)
    /\ key = <<"2", ":", "r", "y", "8", "z", "p", ":", "0">>

\* C10: within one bucket, the keys of (k1, i1) and (k2, i2), k1 and k2 among
\* IIDToOID and IIDToTerms, are equal if and only if k1 = k2 and i1 = i2.
C10_CollisionFreeIntegerKeys ==
    (Keyed /\ HasLast /\ keyer.idx.kind \in IIDKinds
        /\ last.keyer.idx.kind \in IIDKinds /\ keyer.bucket = last.keyer.bucket) =>
        (key = last.key <=>
            /\ keyer.idx.kind = last.keyer.idx.kind
            /\ keyer.idx.route = last.keyer.idx.route)

\* two IIDs of one bucket that differ only above bit 31, under the same kind
C10_Witness ==
    /\ Keyed
    /\ HasLast
    /\ keyer.idx.kind = "IIDToTerms"
    /\ last.keyer.idx.kind = "IIDToTerms"
    /\ keyer.bucket = last.keyer.bucket
    /\ keyer.idx.route = IID_2p32
    /\ IsZero(last.keyer.idx.route)
    /\ key # last.key

\* ------------------------------------------------------------------------
\* Claims on the store handle and the facade (specification SpecKV)
\* ------------------------------------------------------------------------

GetOps == {"get_term_to_iids", "get_oid_to_iid", "get_iid_to_oid", "get_iid_to_terms"}

\* C6: an acquire made while a connection for the collection is open returns
\* that shared handle and does not call DB::open again.
C6_SharedHandle ==
    (ret.op = "acquire" /\ ret.shared # {}) =>
        /\ ret.calls = 0
        /\ ret.res.tag = "Ok"
        /\ ret.res.db \in ret.shared

\* C7: a get made while the engine fails its reads does not return the
\* outcome that stands for an absent key (None).
C7_NotFoundDistinctFromError ==
    (ret.op \in GetOps /\ ret.fault) => ret.res # None

\* C9: when DB::open fails, acquire returns that very error, yields no
\* StoreKV (the caller holds none, no connection was added) and has called
\* DB::open exactly once.
C9_OpenFailureSurfaced ==
    (ret.op = "acquire" /\ ret.engine \in DBErrors) =>
        /\ ret.res = Err(ret.engine)
        /\ ret.calls = 1
        /\ store = NoStore
        /\ live \subseteq ret.shared

\* an acquire whose open failed on a corrupted database
C9_Witness ==
    /\ ret.op = "acquire"
    /\ ret.engine = "corruption"
    /\ ret.res = Err("corruption")
    /\ opens = 1


====
